---- MODULE Spec2Model ----
(***************************************************************************)
(* Model of src/main.rs: main, config_eventfd, tls_support, async_main,    *)
(* initialize_time and print_memory_info.  The program is one sequential   *)
(* task; pc is its position.  Platform services (Wi-Fi driver, SNTP        *)
(* client, heap allocator, HTTP client) are the environment: every         *)
(* fallible call returns Ok or Err nondeterministically.                   *)
(***************************************************************************)
EXTENDS Integers, Sequences, FiniteSets, TLC

\* ---- program constants -------------------------------------------------
SsidLen == 9
PasswordLen == 15
\* capacities of ClientConfiguration's ssid and password fields, the
\* targets of the two try_into() conversions
SsidMax == 32
PasswordMax == 64
PollSecs == 1
LoopSleepSecs == 5

\* ---- bounds of the model -----------------------------------------------
MaxOver == 1
MaxHeap == 3
MaxIter == 3

VARIABLES
    pc,              \* position of the program
    exit,            \* process status: "running", "ok", "error", "panic"
    err,             \* the error value carried to the caller, "none" if none
    asyncRet,        \* result of async_main: "pending", "Ok", "Err"
    cryptoInstalled, \* process-wide default CryptoProvider is installed
    ssidLen,         \* byte length of SSID
    passLen,         \* byte length of PASSWORD
    wifiState,       \* association state of the radio driver
    calls,           \* number of invocations of each bring-up operation
    ret,             \* result of each bring-up operation: "none", "Ok", "Err"
    syncStatus,      \* status of the background SNTP client
    lastPoll,        \* status seen by the last get_sync_status call
    sincePoll,       \* sleep durations since the last get_sync_status call
    polls,           \* number of get_sync_status calls (saturating)
    first,           \* the loop's `first` flag
    iter,            \* index of the current loop iteration (saturating)
    trace,           \* events since start, or since the current iteration began
    heapFree,        \* current free heap
    heapMinFree,     \* minimum free heap seen since boot
    rTotal,          \* print_memory_info: total_heap
    rFree,           \* print_memory_info: free_heap
    rMin,            \* print_memory_info: min_free_heap
    lastHttp,        \* result of the latest reqwest::get: "none", "Ok", "Err"
    sinceGet         \* sleep durations since the latest reqwest::get

procV == <<exit, err, asyncRet>>
credV == <<ssidLen, passLen>>
wifiV == <<wifiState, calls, ret>>
sntpV == <<syncStatus, lastPoll, sincePoll, polls>>
loopV == <<first, iter>>
heapV == <<heapFree, heapMinFree>>
memV  == <<rTotal, rFree, rMin>>
httpV == <<lastHttp, sinceGet>>
vars  == <<pc, procV, cryptoInstalled, credV, wifiV, sntpV, loopV, trace, heapV, memV,
           httpV>>

Ops == {"set_configuration", "start", "connect", "wait_netif_up", "initialize_time"}
OpOrder == <<"set_configuration", "start", "connect", "wait_netif_up", "initialize_time">>
Outcome == {"Ok", "Err"}

Ev(k, v) == [kind |-> k, val |-> v]
Info(k) == Ev(k, 0)
Min(a, b) == IF a <= b THEN a ELSE b
Bump(n) == IF n < MaxIter THEN n + 1 ELSE n
Kinds(s) == {s[i].kind : i \in 1..Len(s)}
Count(s, k) == Cardinality({i \in 1..Len(s) : s[i].kind = k})

\* Mutant: the capacity test is exclusive.
TryIntoExclusive(len, cap) == IF len < cap THEN "Ok" ELSE "Err"

\* heapless::String<N>::try_from(&str): fails iff the bytes do not fit in N
TryInto(len, cap) == IF len <= cap THEN "Ok" ELSE "Err"

\* The whole 8-bit-capable heap; fixed after boot.
HeapTotal == MaxHeap

SsidLens == {0, SsidLen} \cup (SsidMax .. SsidMax + MaxOver)
PasswordLens == {0, PasswordLen} \cup (PasswordMax .. PasswordMax + MaxOver)

InitWith(s, p) ==
    /\ pc = "link_patches"
    /\ exit = "running"
    /\ err = "none"
    /\ asyncRet = "pending"
    /\ cryptoInstalled = FALSE
    /\ ssidLen = s
    /\ passLen = p
    /\ wifiState = "Unconfigured"
    /\ calls = [o \in Ops |-> 0]
    /\ ret = [o \in Ops |-> "none"]
    /\ syncStatus = "Reset"
    /\ lastPoll = "none"
    /\ sincePoll = <<>>
    /\ polls = 0
    /\ first = FALSE
    /\ iter = 0
    /\ trace = <<>>
    /\ heapFree = HeapTotal
    /\ heapMinFree = HeapTotal
    /\ rTotal = 0
    /\ rFree = 0
    /\ rMin = 0
    /\ lastHttp = "none"
    /\ sinceGet = <<>>

\* The program as built: SSID and PASSWORD are the compiled-in constants.
Init == InitWith(SsidLen, PasswordLen)

\* Any configured network-name/passphrase pair.
InitAnyCredentials == \E s \in SsidLens, p \in PasswordLens : InitWith(s, p)

\* ---- failure paths -----------------------------------------------------
\* `?` inside async_main: the future completes with Err(e).
AsyncFail(e) ==
    /\ pc' = "block_on_return"
    /\ asyncRet' = "Err"
    /\ err' = e
    /\ exit' = exit

\* `?` or unwrap in main itself.
MainExit(status, e) ==
    /\ pc' = "exited"
    /\ exit' = status
    /\ err' = e
    /\ asyncRet' = asyncRet

Goto(p) == pc' = p /\ UNCHANGED procV

\* ---- main --------------------------------------------------------------
LinkPatches ==
    /\ pc = "link_patches"
    /\ Goto("config_eventfd")
    /\ UNCHANGED <<cryptoInstalled, credV, httpV, wifiV, sntpV, loopV, trace, heapV, memV>>

ConfigEventfd ==
    /\ pc = "config_eventfd"
    /\ \E r \in Outcome :
         IF r = "Ok" THEN Goto("tls_support") ELSE MainExit("error", "EspError")
    /\ UNCHANGED <<cryptoInstalled, credV, httpV, wifiV, sntpV, loopV, trace, heapV, memV>>

\* CryptoProvider::install_default fails iff a default is already installed.
TlsSupport ==
    /\ pc = "tls_support"
    /\ IF cryptoInstalled
         THEN MainExit("panic", "unwrap") /\ UNCHANGED cryptoInstalled
         ELSE Goto("build_runtime") /\ cryptoInstalled' = TRUE
    /\ UNCHANGED <<credV, httpV, wifiV, sntpV, loopV, trace, heapV, memV>>

BuildRuntime ==
    /\ pc = "build_runtime"
    /\ \E r \in Outcome :
         IF r = "Ok" THEN Goto("peripherals") ELSE MainExit("error", "io::Error")
    /\ UNCHANGED <<cryptoInstalled, credV, httpV, wifiV, sntpV, loopV, trace, heapV, memV>>

\* block_on(async_main())? ; Ok(())
BlockOnReturn ==
    /\ pc = "block_on_return"
    /\ IF asyncRet = "Ok" THEN MainExit("ok", "none") ELSE MainExit("error", err)
    /\ UNCHANGED <<cryptoInstalled, credV, httpV, wifiV, sntpV, loopV, trace, heapV, memV>>

\* ---- async_main: acquiring the platform --------------------------------
Acquire(here, next) ==
    /\ pc = here
    /\ \E r \in Outcome :
         IF r = "Ok" THEN Goto(next) ELSE AsyncFail("EspError")
    /\ UNCHANGED <<cryptoInstalled, credV, httpV, wifiV, sntpV, loopV, trace, heapV, memV>>

PeripheralsTake == Acquire("peripherals", "sysloop")
SysLoopTake == Acquire("sysloop", "nvs")
NvsTake == Acquire("nvs", "timer")
TimerServiceNew == Acquire("timer", "wifi_new")
EspWifiNew == Acquire("wifi_new", "wifi_wrap")
AsyncWifiWrap == Acquire("wifi_wrap", "build_config")

\* ---- async_main: network association -----------------------------------
BuildConfig ==
    /\ pc = "build_config"
    /\ IF TryInto(ssidLen, SsidMax) = "Err" THEN AsyncFail("Error in SSID")
       ELSE IF TryInto(passLen, PasswordMax) = "Err" THEN AsyncFail("Error in Password")
       ELSE Goto("set_configuration")
    /\ UNCHANGED <<cryptoInstalled, credV, httpV, wifiV, sntpV, loopV, trace, heapV, memV>>

\* Mutant: the result of the call is dropped instead of propagated.
WifiOpUnchecked(here, op, state, line, next) ==
    /\ pc = here
    /\ calls' = [calls EXCEPT ![op] = @ + 1]
    /\ \E r \in Outcome :
         /\ ret' = [ret EXCEPT ![op] = r]
         /\ wifiState' = IF r = "Ok" THEN state ELSE wifiState
    /\ Goto(next)
    /\ trace' = Append(trace, Info(line))
    /\ UNCHANGED <<cryptoInstalled, credV, httpV, sntpV, loopV, heapV, memV>>

\* Mutant: a failed call is tried again.
WifiOpRetry(here, op, state, line, next) ==
    /\ pc = here
    /\ calls' = [calls EXCEPT ![op] = Min(@ + 1, 2)]
    /\ \E r \in Outcome :
         /\ ret' = [ret EXCEPT ![op] = r]
         /\ IF r = "Ok"
              THEN /\ Goto(next)
                   /\ wifiState' = state
                   /\ trace' = Append(trace, Info(line))
              ELSE /\ Goto(here)
                   /\ UNCHANGED <<wifiState, trace>>
    /\ UNCHANGED <<cryptoInstalled, credV, httpV, sntpV, loopV, heapV, memV>>

\* One association step: call op, then `?`, then the info! line.
WifiOp(here, op, state, line, next) ==
    /\ pc = here
    /\ calls' = [calls EXCEPT ![op] = @ + 1]
    /\ \E r \in Outcome :
         /\ ret' = [ret EXCEPT ![op] = r]
         /\ IF r = "Ok"
              THEN /\ Goto(next)
                   /\ wifiState' = state
                   /\ trace' = Append(trace, Info(line))
              ELSE /\ AsyncFail("EspError")
                   /\ UNCHANGED <<wifiState, trace>>
    /\ UNCHANGED <<cryptoInstalled, credV, httpV, sntpV, loopV, heapV, memV>>

SetConfiguration ==
    WifiOp("set_configuration", "set_configuration", "Configured",
           "Wi-Fi configuration set.", "start")

WifiStart == WifiOp("start", "start", "Started", "Wi-Fi started.", "connect")

WifiConnect ==
    WifiOp("connect", "connect", "Connecting", "Wi-Fi connecting...", "wait_netif_up")

WaitNetifUp ==
    WifiOp("wait_netif_up", "wait_netif_up", "IpAssigned", "Wi-Fi connected!", "sntp_new")

\* ---- initialize_time ---------------------------------------------------
SntpNew ==
    /\ pc = "sntp_new"
    /\ calls' = [calls EXCEPT !["initialize_time"] = @ + 1]
    /\ trace' = Append(trace, Info("Initializing SNTP and waiting for time sync..."))
    /\ \E r \in Outcome :
         IF r = "Ok"
           THEN Goto("sntp_poll") /\ ret' = ret
           ELSE AsyncFail("EspError") /\ ret' = [ret EXCEPT !["initialize_time"] = "Err"]
    /\ UNCHANGED <<cryptoInstalled, credV, httpV, wifiState, sntpV, loopV, heapV, memV>>

\* Mutant: the status is read once and not waited for.
SntpPollNoWait ==
    /\ pc = "sntp_poll"
    /\ lastPoll' = syncStatus
    /\ polls' = Bump(polls)
    /\ sincePoll' = <<>>
    /\ Goto("let_first")
    /\ ret' = [ret EXCEPT !["initialize_time"] = "Ok"]
    /\ trace' = Append(trace, Info("Time synchronized"))
    /\ UNCHANGED <<cryptoInstalled, credV, httpV, wifiState, calls, syncStatus, loopV,
                   heapV, memV>>

SntpPoll ==
    /\ pc = "sntp_poll"
    /\ lastPoll' = syncStatus
    /\ polls' = Bump(polls)
    /\ sincePoll' = <<>>
    /\ IF syncStatus # "Completed"
         THEN /\ Goto("sntp_sleep")
              /\ UNCHANGED <<ret, trace>>
         ELSE /\ Goto("let_first")
              /\ ret' = [ret EXCEPT !["initialize_time"] = "Ok"]
              /\ trace' = Append(trace, Info("Time synchronized"))
    /\ UNCHANGED <<cryptoInstalled, credV, httpV, wifiState, calls, syncStatus, loopV, heapV, memV>>

SntpSleep ==
    /\ pc = "sntp_sleep"
    /\ sincePoll' = Append(sincePoll, PollSecs)
    /\ Goto("sntp_poll")
    /\ UNCHANGED <<cryptoInstalled, credV, httpV, wifiV, syncStatus, lastPoll, polls, loopV,
                   trace, heapV, memV>>

\* The background SNTP service, alive while the EspSntp value is.
SntpService ==
    /\ pc \in {"sntp_poll", "sntp_sleep"}
    /\ \E s \in {"Reset", "InProgress", "Completed"} \ {syncStatus} : syncStatus' = s
    /\ UNCHANGED <<pc, procV, cryptoInstalled, credV, httpV, wifiV, lastPoll, sincePoll, polls,
                   loopV, trace, heapV, memV>>

\* ---- async_main: reporting loop ----------------------------------------
LetFirst ==
    /\ pc = "let_first"
    /\ first' = TRUE
    /\ Goto("loop_top")
    /\ UNCHANGED <<cryptoInstalled, credV, httpV, wifiV, sntpV, iter, trace, heapV, memV>>

\* Mutant: `first` is never cleared.
LoopTopNeverClears ==
    /\ pc = "loop_top"
    /\ iter' = Bump(iter)
    /\ first' = first
    /\ IF first
         THEN trace' = <<>> /\ Goto("get_ip_info")
         ELSE trace' = <<Info("Sleeping for 5 seconds")>> /\ Goto("sleep")
    /\ UNCHANGED <<cryptoInstalled, credV, httpV, wifiV, sntpV, heapV, memV>>

LoopTop ==
    /\ pc = "loop_top"
    /\ iter' = Bump(iter)
    /\ IF first
         THEN /\ first' = FALSE
              /\ trace' = <<>>
              /\ Goto("get_ip_info")
         ELSE /\ first' = first
              /\ trace' = <<Info("Sleeping for 5 seconds")>>
              /\ Goto("sleep")
    /\ UNCHANGED <<cryptoInstalled, credV, httpV, wifiV, sntpV, heapV, memV>>

\* Mutant: the sleep grows with the number of iterations.
LoopSleepBackoff ==
    /\ pc = "sleep"
    /\ trace' = trace \o <<Ev("sleep", LoopSleepSecs * iter), Info("Looping again...")>>
    /\ sinceGet' = Append(sinceGet, LoopSleepSecs * iter)
    /\ Goto("get_ip_info")
    /\ UNCHANGED <<cryptoInstalled, credV, lastHttp, wifiV, sntpV, loopV, heapV, memV>>

LoopSleep ==
    /\ pc = "sleep"
    /\ trace' = trace \o <<Ev("sleep", LoopSleepSecs), Info("Looping again...")>>
    /\ sinceGet' = Append(sinceGet, LoopSleepSecs)
    /\ Goto("get_ip_info")
    /\ UNCHANGED <<cryptoInstalled, credV, lastHttp, wifiV, sntpV, loopV, heapV, memV>>

GetIpInfo ==
    /\ pc = "get_ip_info"
    /\ \E r \in Outcome :
         IF r = "Ok"
           THEN Goto("mem_total") /\ trace' = Append(trace, Info("IP Info"))
           ELSE AsyncFail("EspError") /\ trace' = trace
    /\ UNCHANGED <<cryptoInstalled, credV, httpV, wifiV, sntpV, loopV, heapV, memV>>

\* ---- print_memory_info -------------------------------------------------
\* heap_caps_get_total_size(..) as u32: usize is 32 bits wide on the target,
\* so the cast keeps the value.
MemTotal ==
    /\ pc = "mem_total"
    /\ rTotal' = HeapTotal
    /\ trace' = Append(trace, Ev("Total heap size", rTotal'))
    /\ Goto("mem_free")
    /\ UNCHANGED <<cryptoInstalled, credV, httpV, wifiV, sntpV, loopV, heapV, rFree, rMin>>

MemFree ==
    /\ pc = "mem_free"
    /\ rFree' = heapFree
    /\ trace' = Append(trace, Ev("Current free heap size", rFree'))
    /\ Goto("mem_min")
    /\ UNCHANGED <<cryptoInstalled, credV, httpV, wifiV, sntpV, loopV, heapV, rTotal, rMin>>

MemMinFree ==
    /\ pc = "mem_min"
    /\ rMin' = heapMinFree
    /\ trace' = Append(trace, Ev("Minimum free heap size", rMin'))
    /\ Goto("mem_used")
    /\ UNCHANGED <<cryptoInstalled, credV, httpV, wifiV, sntpV, loopV, heapV, rTotal, rFree>>

\* Mutant: the operands are swapped.
UsedHeapSwapped(total, free) == free - total

\* total_heap - free_heap on u32.  When free_heap > total_heap the build
\* decides: with overflow checks the subtraction panics, without them it
\* wraps to 2^32 - (free_heap - total_heap), logged here as a "wrapped"
\* event carrying the distance below zero.
UsedHeap(total, free) == total - free

MemUsed ==
    /\ pc = "mem_used"
    /\ LET used == UsedHeap(rTotal, rFree) IN
         IF used >= 0
           THEN /\ trace' = Append(trace, Ev("Currently used heap size", used))
                /\ Goto("http_get")
           ELSE \/ /\ MainExit("panic", "attempt to subtract with overflow")
                   /\ trace' = trace
                \/ /\ trace' = Append(trace, Ev("Currently used heap size (wrapped)", -used))
                   /\ Goto("http_get")
    /\ rTotal' = 0 /\ rFree' = 0 /\ rMin' = 0
    /\ UNCHANGED <<cryptoInstalled, credV, httpV, wifiV, sntpV, loopV, heapV>>

\* Other tasks of the system allocate and release heap at any time.
HeapAlloc ==
    /\ exit = "running"
    /\ \E n \in 1..heapFree :
         /\ heapFree' = heapFree - n
         /\ heapMinFree' = Min(heapMinFree, heapFree')
    /\ UNCHANGED <<pc, procV, cryptoInstalled, credV, httpV, wifiV, sntpV, loopV, trace, memV>>

HeapRelease ==
    /\ exit = "running"
    /\ \E n \in 1..(HeapTotal - heapFree) : heapFree' = heapFree + n
    /\ UNCHANGED <<pc, procV, cryptoInstalled, credV, httpV, wifiV, sntpV, loopV, trace, memV,
                   heapMinFree>>

\* ---- the HTTPS request -------------------------------------------------
\* Mutant: the request's error is propagated with `?`.
HttpGetPropagates ==
    /\ pc = "http_get"
    /\ sinceGet' = <<>>
    /\ \E r \in Outcome :
         /\ lastHttp' = r
         /\ IF r = "Ok"
              THEN /\ Goto("read_body")
                   /\ trace' = Append(trace, Info("GET"))
              ELSE /\ AsyncFail("reqwest::Error")
                   /\ trace' = Append(trace, Info("GET"))
    /\ UNCHANGED <<cryptoInstalled, credV, wifiV, sntpV, loopV, heapV, memV>>

HttpGet ==
    /\ pc = "http_get"
    /\ sinceGet' = <<>>
    /\ \E r \in Outcome :
         /\ lastHttp' = r
         /\ IF r = "Ok"
              THEN /\ Goto("read_body")
                   /\ trace' = Append(trace, Info("GET"))
              ELSE /\ Goto("loop_top")
                   /\ trace' = trace \o <<Info("GET"), Info("Error in network request")>>
    /\ UNCHANGED <<cryptoInstalled, credV, wifiV, sntpV, loopV, heapV, memV>>

\* Mutant: the function returns Ok(()) once the public IP is logged.
ReadBodyThenReturn ==
    /\ pc = "read_body"
    /\ \E r \in Outcome :
         IF r = "Ok"
           THEN /\ pc' = "block_on_return" /\ asyncRet' = "Ok"
                /\ UNCHANGED <<exit, err>>
                /\ trace' = Append(trace, Info("Public IP"))
           ELSE AsyncFail("reqwest::Error") /\ trace' = trace
    /\ UNCHANGED <<cryptoInstalled, credV, httpV, wifiV, sntpV, loopV, heapV, memV>>

ReadBody ==
    /\ pc = "read_body"
    /\ \E r \in Outcome :
         IF r = "Ok"
           THEN Goto("loop_top") /\ trace' = Append(trace, Info("Public IP"))
           ELSE AsyncFail("reqwest::Error") /\ trace' = trace
    /\ UNCHANGED <<cryptoInstalled, credV, httpV, wifiV, sntpV, loopV, heapV, memV>>

\* ---- specification -----------------------------------------------------
Program ==
    \/ LinkPatches \/ ConfigEventfd \/ TlsSupport \/ BuildRuntime \/ BlockOnReturn
    \/ PeripheralsTake \/ SysLoopTake \/ NvsTake \/ TimerServiceNew
    \/ EspWifiNew \/ AsyncWifiWrap
    \/ BuildConfig \/ SetConfiguration \/ WifiStart \/ WifiConnect \/ WaitNetifUp
    \/ SntpNew \/ SntpPoll \/ SntpSleep
    \/ LetFirst \/ LoopTop \/ LoopSleep \/ GetIpInfo
    \/ MemTotal \/ MemFree \/ MemMinFree \/ MemUsed
    \/ HttpGet \/ ReadBody

Environment == SntpService \/ HeapAlloc \/ HeapRelease

Next == Program \/ Environment

Spec == Init /\ [][Next]_vars

SpecAnyCredentials == InitAnyCredentials /\ [][Next]_vars

\* The single task is always resumed: timers fire and every call returns.
FairSpec == Spec /\ WF_vars(Program)

\* ---- properties --------------------------------------------------------
WifiOps == {"set_configuration", "start", "connect", "wait_netif_up"}
Idx(o) == CHOOSE i \in 1..Len(OpOrder) : OpOrder[i] = o
LoopPcs == {"loop_top", "sleep", "get_ip_info", "mem_total", "mem_free", "mem_min",
            "mem_used", "http_get", "read_body"}
ReportPcs == LoopPcs \ {"loop_top", "sleep"}
PollPcs == {"sntp_poll", "sntp_sleep"}
EndPcs == {"block_on_return", "exited"}
SleepKinds == {"Sleeping for 5 seconds", "sleep", "Looping again..."}
Val(k) == trace[CHOOSE i \in 1..Len(trace) : trace[i].kind = k].val
WithinLimits == ssidLen <= SsidMax /\ passLen <= PasswordMax
ConfigError == IF ssidLen > SsidMax THEN "Error in SSID" ELSE "Error in Password"

\* C1: set_configuration, start, connect, wait_netif_up and initialize_time
\* are each invoked at most once and in that order, each only after the one
\* before it returned Ok; the reporting loop begins only after
\* initialize_time returned Ok.
C1_Order ==
    /\ \A o \in Ops : calls[o] <= 1
    /\ \A a, b \in Ops :
         (Idx(a) < Idx(b) /\ calls[b] >= 1) => (calls[a] = 1 /\ ret[a] = "Ok")
    /\ \A o \in Ops : (pc = o) => calls[o] = 0
    /\ (pc \in PollPcs \cup {"sntp_new"}) => ret["wait_netif_up"] = "Ok"
    /\ (pc \in LoopPcs \/ iter >= 1) =>
         (ret["initialize_time"] = "Ok" /\ \A o \in Ops : calls[o] = 1)

C1_Witness ==
    /\ pc = "get_ip_info" /\ iter = 1
    /\ \A o \in Ops : calls[o] = 1 /\ ret[o] = "Ok"
    /\ wifiState = "IpAssigned"

\* C2: a failed set_configuration, start, connect or wait_netif_up is never
\* retried, is followed by no later association step, no time
\* synchronization and no loop iteration, and ends the process with the
\* error.
C2_Safe ==
    \A o \in WifiOps : ret[o] = "Err" =>
        /\ calls[o] = 1
        /\ \A b \in Ops : Idx(o) < Idx(b) => calls[b] = 0
        /\ polls = 0 /\ iter = 0 /\ lastHttp = "none"
        /\ asyncRet = "Err" /\ err = "EspError"
        /\ pc \in EndPcs
        /\ exit = IF pc = "exited" THEN "error" ELSE "running"

C2_Fatal ==
    /\ []C2_Safe
    /\ (\E o \in WifiOps : ret[o] = "Err") ~> (exit = "error")

C2_Witness == pc = "exited" /\ exit = "error" /\ ret["connect"] = "Err"

\* C3 as stated: every pair within the limits is applied successfully, and
\* every pair over a limit fails before set_configuration with no start or
\* connect.
C3_Original ==
    /\ (WithinLimits /\ calls["set_configuration"] >= 1) =>
         ret["set_configuration"] = "Ok"
    /\ ~WithinLimits => \A o \in Ops : calls[o] = 0

C3_State ==
    /\ WithinLimits => err \notin {"Error in SSID", "Error in Password"}
    /\ ~WithinLimits =>
         /\ \A o \in Ops : calls[o] = 0
         /\ wifiState = "Unconfigured"
         /\ pc \notin Ops \cup PollPcs \cup LoopPcs \cup {"sntp_new", "let_first"}

C3_Step ==
    (pc = "build_config" /\ pc' # pc) =>
        IF WithinLimits
          THEN pc' = "set_configuration" /\ err' = "none" /\ asyncRet' = "pending"
          ELSE pc' = "block_on_return" /\ asyncRet' = "Err" /\ err' = ConfigError

\* C3 (amended): for every pair within the limits the client configuration
\* is built and async_main goes on to call set_configuration with it (the
\* driver may still reject it); for every pair over a limit async_main fails
\* at that point with "Error in SSID" or "Error in Password", before
\* set_configuration, and no association step is ever attempted.
C3_Amended == []C3_State /\ [][C3_Step]_vars

C3_Witness ==
    /\ ssidLen = SsidMax /\ passLen > PasswordMax
    /\ pc = "exited" /\ exit = "error" /\ err = "Error in Password"

C5_State ==
    ("Error in network request" \in Kinds(trace)) =>
        /\ pc = "loop_top" /\ exit = "running" /\ asyncRet = "pending"
        /\ lastHttp = "Err"
        /\ "Public IP" \notin Kinds(trace)

C5_Step ==
    (pc = "http_get" /\ pc' # pc /\ lastHttp' = "Err") =>
        /\ pc' = "loop_top" /\ exit' = "running" /\ asyncRet' = "pending"
        /\ trace'[Len(trace')].kind = "Error in network request"
        /\ "Public IP" \notin Kinds(trace')

\* C5: a failed GET is logged, logs no public IP in its iteration, does not
\* end the process, and is followed by the start of the next iteration.
C5_RequestFailure == []C5_State /\ [][C5_Step]_vars

C5_Witness ==
    /\ pc = "loop_top" /\ iter >= 1 /\ lastHttp = "Err"
    /\ "Error in network request" \in Kinds(trace)

\* C6: inside the loop nothing after the IP read -- the heap query, the GET,
\* the read of the response body -- ends the program.
C6_Step == (pc \in ReportPcs \ {"get_ip_info"}) => (pc' \notin EndPcs)

C6_OnlyIpReadIsFatal == [][C6_Step]_vars

C7_State ==
    /\ (ret["initialize_time"] = "Ok" \/ pc \in LoopPcs \cup {"let_first"} \/ iter >= 1)
         => lastPoll = "Completed"
    /\ (pc = "sntp_poll" /\ polls >= 1) => sincePoll = <<PollSecs>>
    /\ pc = "sntp_sleep" => (sincePoll = <<>> /\ lastPoll # "Completed")

C7_Step ==
    (pc \in PollPcs /\ pc' \notin PollPcs) =>
        (pc = "sntp_poll" /\ lastPoll' = "Completed" /\ syncStatus = "Completed")

C8_State ==
    /\ exit # "panic"
    /\ "Currently used heap size (wrapped)" \notin Kinds(trace)
    /\ "Minimum free heap size" \in Kinds(trace) =>
         /\ Val("Minimum free heap size") <= Val("Current free heap size")
         /\ Val("Current free heap size") <= Val("Total heap size")
    /\ "Currently used heap size" \in Kinds(trace) =>
         Val("Currently used heap size")
           = Val("Total heap size") - Val("Current free heap size")
    /\ pc \in ReportPcs \cup {"loop_top"} /\ iter >= 1 /\ pc \notin
         {"get_ip_info", "mem_total", "mem_free", "mem_min", "mem_used"}
         => "Currently used heap size" \in Kinds(trace)

C8_Step ==
    (pc \in {"mem_total", "mem_free", "mem_min", "mem_used"} /\ pc' # pc) =>
        UNCHANGED <<procV, cryptoInstalled, credV, wifiV, sntpV, loopV, heapV, httpV>>

\* C8: the used-heap value logged in an iteration is total minus free, with
\* no wrap-around and no panic; the counters read satisfy
\* minimum_free <= free <= total; the query changes no program state.
C8_HeapReport == []C8_State /\ [][C8_Step]_vars

C8_Witness ==
    /\ pc = "http_get"
    /\ Val("Currently used heap size") = 1
    /\ Val("Minimum free heap size") < Val("Current free heap size")
    /\ Val("Current free heap size") < Val("Total heap size")

C9_State ==
    /\ pc \in ReportPcs \ {"read_body"} => Count(trace, "GET") = 0
    /\ (pc = "loop_top" /\ iter >= 1) => Count(trace, "GET") = 1
    /\ (pc = "http_get" /\ lastHttp # "none") => sinceGet = <<LoopSleepSecs>>
    /\ (iter >= 1 /\ lastHttp # "Ok" /\ err # "EspError") =>
         (pc \in LoopPcs /\ exit = "running")

\* C9: while every GET fails and every IP read succeeds the loop runs
\* forever: a GET is issued infinitely often, once per iteration, with
\* exactly one 5-second sleep between two consecutive GETs.
C9_RetryForever ==
    /\ []C9_State
    /\ (<>(iter >= 1) /\ [](lastHttp # "Ok") /\ [](iter >= 1 => err # "EspError"))
         => []<><<HttpGet>>_vars

C9_Witness ==
    /\ iter = MaxIter /\ pc = "http_get" /\ lastHttp = "Err"
    /\ sinceGet = <<LoopSleepSecs>>

\* C10: async_main never returns Ok and the process never exits with
\* success: every exit is a propagated error or a panic.
C10_NeverOk ==
    /\ asyncRet # "Ok"
    /\ exit \in {"running", "error", "panic"}
    /\ pc = "exited" => (exit \in {"error", "panic"} /\ err # "none")

C10_Witness == pc = "exited" /\ exit = "error" /\ iter >= 1

====
